---------------------------- MODULE Spec2Model ----------------------------
(***************************************************************************)
(* A model of the RiskIQ-AI backend (src/backend/api.py and the            *)
(* rag_pipeline package): start-up of the RAG pipeline, the two request    *)
(* handlers, context retrieval under a character ceiling, prompt assembly  *)
(* under a character budget, and the parsing of the model's output.        *)
(*                                                                         *)
(* Free text is modelled by its length (a Python str of n characters is n) *)
(* wherever the code only measures, slices and concatenates it.  The       *)
(* model's output, which the code searches and decodes, is a sequence of   *)
(* lexical tokens.                                                         *)
(***************************************************************************)
EXTENDS Integers, Sequences, FiniteSets, TLC

VARIABLES
    embedder,         \* api.py:50   global embedder    ("None" | "set")
    db,               \* api.py:51   global db          ("None" | "set")
    qa_chain,         \* api.py:52   global qa_chain    ("None" | "set")
    session_context,  \* api.py:133  the single profile slot ("None" | profile)
    startup_pc,       \* position of startup_event
    env,              \* what start-up finds: the persisted store, the folder
    resp,             \* the response to the latest request
    ret_in, ret_out,  \* retrieve_rag_context: arguments and result
    asm_in, asm_out,  \* prompt assembly: arguments and result
    par_in, par_out,  \* output parsing: the model's output and the result
    q_in, q_out,      \* generate_dynamic_questions: the profile and the result
    rt_in, rt_out,    \* build_risk_table: the answers and the result
    ld_in, ld_out     \* load_documents: the folder and the result

svc_vars == <<embedder, db, qa_chain, session_context, startup_pc, env, resp>>
ret_vars == <<ret_in, ret_out>>
asm_vars == <<asm_in, asm_out>>
par_vars == <<par_in, par_out>>
q_vars == <<q_in, q_out>>
rt_vars == <<rt_in, rt_out>>
ld_vars == <<ld_in, ld_out>>
vars == <<svc_vars, ret_vars, asm_vars, par_vars, q_vars, rt_vars, ld_vars>>

-----------------------------------------------------------------------------
(* Program constants. *)

MAX_RAG_CONTEXT_CHARS == 1000
TARGET_LLM_PROMPT_TOTAL_CHARS == 3600
\* db.similarity_search(query, k=3)
SEARCH_K == 3
\* max(50, per_doc_content_budget)
MIN_DOC_CONTENT == 50
\* len(separator), separator = "\n\n---\n\n"
SEPARATOR_LEN == 7
\* the literal 10 subtracted from the per-document budget
BUDGET_SLACK == 10
\* len("Source: ") and len("Unknown")
SOURCE_PREFIX_LEN == 8
UNKNOWN_LEN == 7
\* len("\nContent: ")
CONTENT_PREFIX_LEN == 10
\* len("Vector DB not initialized.")
NO_DB_MESSAGE_LEN == 26
\* len("Error retrieving RAG context: ")
ERROR_PREFIX_LEN == 30

-----------------------------------------------------------------------------
(* Python primitives on lengths. *)

Min(a, b) == IF a <= b THEN a ELSE b
Max(a, b) == IF a >= b THEN a ELSE b

\* len(s[:k]) for len(s) = n: a negative k counts from the end of s.
SliceLen(n, k) == IF k >= 0 THEN Min(n, k) ELSE Max(0, n + k)

\* int(x * num/den) for an integer x: int() truncates towards zero.
TruncMul(x, num, den) ==
    IF x >= 0 THEN (x * num) \div den ELSE -(((-x) * num) \div den)

RECURSIVE SumLens(_)
SumLens(s) == IF s = <<>> THEN 0 ELSE Head(s) + SumLens(Tail(s))

\* len(sep.join(parts)) for the lengths of the parts.
JoinLen(lens, sepLen) ==
    IF lens = <<>> THEN 0 ELSE SumLens(lens) + sepLen * (Len(lens) - 1)

\* All sequences over S of length 0..n.
SeqsUpTo(S, n) == UNION {[1..k -> S] : k \in 0..n}

-----------------------------------------------------------------------------
(* retrieve_rag_context, api.py:342-406.                                   *)
(* A returned chunk is [source, content]: source is the length of          *)
(* metadata['source'] or -1 when the key is missing, content is            *)
(* len(page_content).  The search either returns at most k chunks or       *)
(* raises with a message of some length.                                   *)

\* len(f"Source: {doc.metadata.get('source', 'Unknown')}")
SourceInfoLen(doc) ==
    SOURCE_PREFIX_LEN + (IF doc.source < 0 THEN UNKNOWN_LEN ELSE doc.source)

\* A faulty variant of the budget: the share of the ceiling without the floor.
PerDocContentBudgetWithoutFloor(doc, nDocs) ==
    (MAX_RAG_CONTEXT_CHARS \div nDocs) - SourceInfoLen(doc)
        - SEPARATOR_LEN - BUDGET_SLACK

\* per_doc_content_budget, api.py:385-386
PerDocContentBudget(doc, nDocs) ==
    Max(MIN_DOC_CONTENT,
        (MAX_RAG_CONTEXT_CHARS \div nDocs) - SourceInfoLen(doc)
            - SEPARATOR_LEN - BUDGET_SLACK)

\* doc_context_segment, api.py:389-390: what one chunk would contribute.
DocSegment(doc, nDocs) ==
    LET content == SliceLen(doc.content, PerDocContentBudget(doc, nDocs))
    IN  [source_info |-> SourceInfoLen(doc),
         budget      |-> PerDocContentBudget(doc, nDocs),
         original    |-> doc.content,
         content     |-> content,
         len         |-> SourceInfoLen(doc) + CONTENT_PREFIX_LEN + content]

\* The test of api.py:393: the segment does not fit any more.
SegmentOverflows(current_context_len, seg, context_parts) ==
    current_context_len + seg.len
        + (IF context_parts # <<>> THEN SEPARATOR_LEN ELSE 0)
      > MAX_RAG_CONTEXT_CHARS

\* A faulty variant of the loop: a chunk that does not fit is skipped and
\* the loop goes on with the next one.
RECURSIVE ContextLoopSkipping(_, _, _, _)
ContextLoopSkipping(docs, i, current_context_len, context_parts) ==
    IF i > Len(docs) THEN context_parts
    ELSE LET seg == DocSegment(docs[i], Len(docs))
         IN  IF SegmentOverflows(current_context_len, seg, context_parts)
             THEN ContextLoopSkipping(docs, i + 1, current_context_len, context_parts)
             ELSE ContextLoopSkipping(docs, i + 1,
                      current_context_len + seg.len
                          + (IF context_parts # <<>> THEN SEPARATOR_LEN ELSE 0),
                      Append(context_parts, seg))

\* The loop of api.py:380-397 from chunk i on; a break ends it.
RECURSIVE ContextLoop(_, _, _, _)
ContextLoop(docs, i, current_context_len, context_parts) ==
    IF i > Len(docs) THEN context_parts
    ELSE LET seg == DocSegment(docs[i], Len(docs))
         IN  IF SegmentOverflows(current_context_len, seg, context_parts)
             THEN context_parts
             ELSE ContextLoop(docs, i + 1,
                      current_context_len + seg.len
                          + (IF context_parts # <<>> THEN SEPARATOR_LEN ELSE 0),
                      Append(context_parts, seg))

PartLens(parts) == [i \in 1..Len(parts) |-> parts[i].len]

\* A faulty variant: an exception in the search leaves the function.
RetrieveRagContextUncaught(dbv, search) ==
    IF dbv = "None"
    THEN [raised |-> FALSE, path |-> "no_db", parts |-> <<>>, queried |-> FALSE,
          len |-> NO_DB_MESSAGE_LEN]
    ELSE IF search.raises
    THEN [raised |-> TRUE, path |-> "error", parts |-> <<>>, queried |-> TRUE,
          len |-> 0]
    ELSE [raised |-> FALSE, path |-> "ok",
          parts |-> ContextLoop(search.docs, 1, 0, <<>>), queried |-> TRUE,
          len |-> JoinLen(PartLens(ContextLoop(search.docs, 1, 0, <<>>)),
                          SEPARATOR_LEN)]

\* retrieve_rag_context: dbv is the global db, search the outcome of the
\* try block of api.py:371-401 (db.similarity_search and the loop over
\* its chunks): the chunks, or an exception with a message.  The result
\* records whether an exception left the function (the except clause of
\* api.py:402 catches every Exception), which path produced the context,
\* the segments included and len(context).
RetrieveRagContext(dbv, search) ==
    IF dbv = "None"
    THEN [raised |-> FALSE, path |-> "no_db", parts |-> <<>>, queried |-> FALSE,
          len |-> NO_DB_MESSAGE_LEN]
    ELSE IF search.raises
    THEN [raised |-> FALSE, path |-> "error", parts |-> <<>>, queried |-> TRUE,
          len |-> ERROR_PREFIX_LEN + search.message]
    ELSE LET parts == ContextLoop(search.docs, 1, 0, <<>>)
         IN  [raised |-> FALSE, path |-> "ok", parts |-> parts, queried |-> TRUE,
              len |-> JoinLen(PartLens(parts), SEPARATOR_LEN)]

-----------------------------------------------------------------------------
(* The risk catalogue, api.py:136-159.  category, definition and           *)
(* scoring_focus are the lengths of those texts, weight is in hundredths.  *)

RISK_CATEGORIES_DEFINITION == <<
    [id |-> "business_strategy", category |-> 27, definition |-> 88, scoring_focus |-> 63,
     weight |-> 6, max_score |-> 10],
    [id |-> "market_position", category |-> 39, definition |-> 83, scoring_focus |-> 67,
     weight |-> 5, max_score |-> 10],
    [id |-> "financial_impact", category |-> 29, definition |-> 86, scoring_focus |-> 51,
     weight |-> 5, max_score |-> 10],
    [id |-> "regulatory_compliance", category |-> 21, definition |-> 74, scoring_focus |-> 61,
     weight |-> 5, max_score |-> 10],
    [id |-> "organizational_readiness", category |-> 24, definition |-> 75, scoring_focus |-> 55,
     weight |-> 5, max_score |-> 10],
    [id |-> "asset_visibility", category |-> 16, definition |-> 107, scoring_focus |-> 41,
     weight |-> 4, max_score |-> 10],
    [id |-> "data_sensitivity", category |-> 33, definition |-> 112, scoring_focus |-> 48,
     weight |-> 5, max_score |-> 10],
    [id |-> "access_management", category |-> 17, definition |-> 111, scoring_focus |-> 38,
     weight |-> 5, max_score |-> 10],
    [id |-> "network_security", category |-> 24, definition |-> 97, scoring_focus |-> 54,
     weight |-> 4, max_score |-> 10],
    [id |-> "cloud_security", category |-> 14, definition |-> 103, scoring_focus |-> 46,
     weight |-> 5, max_score |-> 10],
    [id |-> "third_party_risk", category |-> 16, definition |-> 91, scoring_focus |-> 54,
     weight |-> 5, max_score |-> 10],
    [id |-> "incident_response", category |-> 29, definition |-> 84, scoring_focus |-> 29,
     weight |-> 5, max_score |-> 10],
    [id |-> "security_awareness", category |-> 27, definition |-> 94, scoring_focus |-> 45,
     weight |-> 4, max_score |-> 10],
    [id |-> "grc", category |-> 35, definition |-> 78, scoring_focus |-> 41,
     weight |-> 5, max_score |-> 10],
    [id |-> "secure_sdlc", category |-> 25, definition |-> 75, scoring_focus |-> 41,
     weight |-> 4, max_score |-> 10],
    [id |-> "business_continuity", category |-> 32, definition |-> 80, scoring_focus |-> 49,
     weight |-> 4, max_score |-> 10],
    [id |-> "security_monitoring", category |-> 29, definition |-> 67, scoring_focus |-> 44,
     weight |-> 4, max_score |-> 10],
    [id |-> "risk_quantification", category |-> 31, definition |-> 68, scoring_focus |-> 37,
     weight |-> 3, max_score |-> 10],
    [id |-> "app_security", category |-> 20, definition |-> 81, scoring_focus |-> 49,
     weight |-> 4, max_score |-> 10],
    [id |-> "emerging_tech_adoption", category |-> 28, definition |-> 85, scoring_focus |-> 48,
     weight |-> 3, max_score |-> 10],
    [id |-> "innovation_culture", category |-> 18, definition |-> 86, scoring_focus |-> 64,
     weight |-> 4, max_score |-> 10],
    [id |-> "talent_management", category |-> 17, definition |-> 96, scoring_focus |-> 60,
     weight |-> 5, max_score |-> 10]
>>

CategoryIds == {RISK_CATEGORIES_DEFINITION[i].id :
                    i \in 1..Len(RISK_CATEGORIES_DEFINITION)}

-----------------------------------------------------------------------------
(* CompanyProfile, api.py:92-99.  name, industry, size and tech_adoption   *)
(* are strings; security_controls and risk_posture are lengths;            *)
(* emerging_technologies is a list of [len, cloud], cloud telling whether  *)
(* the lower-cased text contains "cloud".                                  *)

\* str.lower() on the strings the model uses.
Lower(s) ==
    CASE s = "Healthcare" -> "healthcare"
      [] s = "Retail"     -> "retail"
      [] s = "Small"      -> "small"
      [] s = "Enterprise" -> "enterprise"
      [] s = "Leader"     -> "leader"
      [] s = "Laggard"    -> "laggard"
      [] OTHER            -> s

\* len(', '.join(profile.emerging_technologies))
EmergingTechJoinLen(profile) ==
    JoinLen([i \in 1..Len(profile.emerging_technologies) |->
                 profile.emerging_technologies[i].len], 2)

\* prioritized_categories, api.py:227-246 (as a set: it is only tested with "in")
PrioritizedCategories(profile) ==
    {"business_strategy"}
    \cup (IF Lower(profile.size) \in {"startup", "small", "sme", "medium"}
          THEN {"financial_impact", "talent_management"} ELSE {})
    \cup (IF Lower(profile.size) \in {"large", "enterprise", "corporation"}
          THEN {"market_position", "regulatory_compliance"} ELSE {})
    \cup (IF Lower(profile.tech_adoption) \in {"early adopter", "innovator", "leader"}
          THEN {"innovation_culture", "emerging_tech_adoption"} ELSE {})
    \cup (IF Lower(profile.industry) \in
                {"finance", "banking", "healthcare", "government", "insurance"}
          THEN {"data_sensitivity", "regulatory_compliance", "third_party_risk"}
          ELSE {})

\* any("cloud" in tech.lower() for tech in profile.emerging_technologies)
MentionsCloud(profile) ==
    \E i \in 1..Len(profile.emerging_technologies) :
        profile.emerging_technologies[i].cloud

\* The RiskQuestion built for one catalogue entry, api.py:251-272.
\* question_text and helper_text are lengths; wording names the template.
QuestionFor(cat_def, profile) ==
    LET wording ==
            IF cat_def.id = "emerging_tech_adoption" THEN "technologies"
            ELSE IF cat_def.id = "cloud_security" /\ ~MentionsCloud(profile)
            THEN "cloud_services"
            ELSE "practices"
        prioritized == cat_def.id \in PrioritizedCategories(profile)
    IN  [id            |-> cat_def.id,
         wording       |-> wording,
         question_text |->
             CASE wording = "practices" ->
                      73 + cat_def.category + cat_def.definition
                         + cat_def.scoring_focus
               [] wording = "cloud_services" ->
                      135 + cat_def.category + cat_def.definition
                          + cat_def.scoring_focus
               [] wording = "technologies" ->
                      103 + cat_def.category + EmergingTechJoinLen(profile),
         category_name |-> cat_def.category,
         prioritized   |-> prioritized,
         helper_text   |->
             36 + cat_def.definition + cat_def.scoring_focus
                + (IF prioritized THEN 83 + Len(profile.industry) ELSE 0),
         scoring_focus |-> cat_def.scoring_focus]

\* generate_dynamic_questions, api.py:222-275: the loop over the catalogue.
\* A faulty variant: questions for the prioritised categories only.
PrioritizedQuestionsOnly(profile) ==
    SelectSeq([i \in 1..Len(RISK_CATEGORIES_DEFINITION) |->
                  QuestionFor(RISK_CATEGORIES_DEFINITION[i], profile)],
              LAMBDA q : q.prioritized)

GenerateDynamicQuestions(profile) ==
    [i \in 1..Len(RISK_CATEGORIES_DEFINITION) |->
        QuestionFor(RISK_CATEGORIES_DEFINITION[i], profile)]

-----------------------------------------------------------------------------
(* Answers.  An answer text is [len, positive, negative, placeholder]:     *)
(* its length, whether its lower-cased text contains one of the positive   *)
(* or negative keywords, and whether it lower-cases to                     *)
(* "no answer provided".  A dict is a sequence of [key, value] in          *)
(* insertion order with distinct keys.                                     *)

NoAnswerProvided ==
    [len |-> 18, positive |-> FALSE, negative |-> FALSE, placeholder |-> TRUE]

DictHas(d, k) == \E i \in 1..Len(d) : d[i].key = k

DictGet(d, k, default) ==
    IF DictHas(d, k)
    THEN d[CHOOSE i \in 1..Len(d) : d[i].key = k].value
    ELSE default

\* d[k] = v: an existing key keeps its place, a new key goes last.
DictSet(d, k, v) ==
    IF DictHas(d, k)
    THEN [i \in 1..Len(d) |-> IF d[i].key = k THEN [key |-> k, value |-> v]
                                               ELSE d[i]]
    ELSE Append(d, [key |-> k, value |-> v])

\* answers_dict, api.py:194-197, from the request's list of RiskAnswer.
RECURSIVE AnswersDict(_)
AnswersDict(answers) ==
    IF answers = <<>> THEN <<>>
    ELSE LET n == Len(answers)
         IN  DictSet(AnswersDict(SubSeq(answers, 1, n - 1)),
                     answers[n].question_id, answers[n].answer)

\* The length-based score, api.py:288-296.
BaseScore(answer_text) ==
    IF answer_text.placeholder THEN 2
    ELSE IF answer_text.len < 20 THEN 4
    ELSE IF answer_text.len < 100 THEN 6
    ELSE 8

\* A faulty variant of the adjustment: the negative keywords are looked at first.
CategoryScoreNegativeFirst(cat_def, answer_text) ==
    LET base == IF answer_text.placeholder THEN 2
                ELSE IF answer_text.len < 20 THEN 4
                ELSE IF answer_text.len < 100 THEN 6
                ELSE 8
        adjusted ==
            IF answer_text.negative THEN (IF base >= 2 THEN base - 2 ELSE 0)
            ELSE IF answer_text.positive
                 THEN (IF base + 2 <= cat_def.max_score THEN base + 2
                       ELSE cat_def.max_score)
            ELSE base
    IN  adjusted

\* The keyword adjustment and the clamp, api.py:304-310.
CategoryScore(cat_def, answer_text) ==
    LET base == BaseScore(answer_text)
        adjusted ==
            IF answer_text.positive THEN Min(cat_def.max_score, base + 2)
            ELSE IF answer_text.negative THEN Max(0, base - 2)
            ELSE base
    IN  Max(0, Min(cat_def.max_score, adjusted))

\* len(explanation), api.py:313-314
ExplanationLen(cat_def, answer_text) ==
    25 + SliceLen(answer_text.len, 100)
       + (IF answer_text.len > 100 THEN 3 ELSE 0) + 3
       + 22 + cat_def.scoring_focus + 1

\* One RiskTableRow, api.py:285-326.
RiskTableRow(cat_def, answers) ==
    LET answer_text == DictGet(answers, cat_def.id, NoAnswerProvided)
    IN  [id            |-> cat_def.id,
         category      |-> cat_def.category,
         definition    |-> cat_def.definition,
         scoring_focus |-> cat_def.scoring_focus,
         score         |-> CategoryScore(cat_def, answer_text),
         max_score     |-> cat_def.max_score,
         weight        |-> cat_def.weight,
         explanation   |-> ExplanationLen(cat_def, answer_text)]

RECURSIVE WeightedSum(_, _)
WeightedSum(table, i) ==
    IF i > Len(table) THEN 0
    ELSE table[i].score * table[i].weight + WeightedSum(table, i + 1)

RECURSIVE WeightSum(_, _)
WeightSum(table, i) ==
    IF i > Len(table) THEN 0
    ELSE table[i].weight + WeightSum(table, i + 1)

\* A faulty variant of the table: rows for the answered categories only.
RiskTableOfAnsweredOnly(answers) ==
    LET table == SelectSeq(
                   [i \in 1..Len(RISK_CATEGORIES_DEFINITION) |->
                       [id |-> RISK_CATEGORIES_DEFINITION[i].id,
                        category |-> RISK_CATEGORIES_DEFINITION[i].category,
                        definition |-> RISK_CATEGORIES_DEFINITION[i].definition,
                        scoring_focus |-> RISK_CATEGORIES_DEFINITION[i].scoring_focus,
                        score |-> 6,
                        max_score |-> RISK_CATEGORIES_DEFINITION[i].max_score,
                        weight |-> RISK_CATEGORIES_DEFINITION[i].weight,
                        explanation |-> 0]],
                   LAMBDA r : \E j \in 1..Len(answers) : answers[j].key = r.id)
    IN  [table |-> table, weighted |-> 0, weights |-> 0]

\* build_risk_table, api.py:277-340.  The overall score is kept as the
\* fraction it is computed from: 100 * weighted / (10 * weights).
BuildRiskTable(answers) ==
    LET table == [i \in 1..Len(RISK_CATEGORIES_DEFINITION) |->
                     RiskTableRow(RISK_CATEGORIES_DEFINITION[i], answers)]
    IN  [table    |-> table,
         weighted |-> WeightedSum(table, 1),
         weights  |-> WeightSum(table, 1)]

\* sorted(risk_table, key=lambda x: x.score): a stable sort, scores 0..10.
RECURSIVE SortedByScore(_, _)
SortedByScore(table, s) ==
    IF s > 10 THEN <<>>
    ELSE SelectSeq(table, LAMBDA r : r.score = s) \o SortedByScore(table, s + 1)

\* category of api.py:365: the catalogue's name for a known id (given here
\* by the id), else the id itself.
ResponseAbout(risk_id) ==
    [named |-> risk_id \in {RISK_CATEGORIES_DEFINITION[i].id :
                               i \in 1..Len(RISK_CATEGORIES_DEFINITION)},
     id |-> risk_id]

\* query, api.py:349-368: the text sent to the vector index, by its parts.
RetrievalQuery(profile, answers, risk_table) ==
  LET sorted_risks == SortedByScore(risk_table, 0)
  IN
    [industry |-> profile.industry,
     size |-> profile.size,
     tech_adoption |-> profile.tech_adoption,
     security_controls |-> SliceLen(profile.security_controls, 150),
     risk_posture |-> SliceLen(profile.risk_posture, 150),
     emerging_technologies |-> profile.emerging_technologies,
     high_risk_categories |->
         [i \in 1..Min(3, Len(sorted_risks)) |-> sorted_risks[i].id],
     responses |->
         [i \in 1..Min(3, Len(answers)) |->
             [about |-> ResponseAbout(answers[i].key),
              answer |-> [answers[i].value EXCEPT !.len = SliceLen(@, 100)]]]]

-----------------------------------------------------------------------------
(* Prompt assembly in generate_llm_advice_async, api.py:414-502.           *)

\* len(static_prompt_header) without the joined emerging technologies
STATIC_HEADER_LEN == 1104
\* len(static_prompt_answers_header), ..._table_header, ..._context_header,
\* len(static_prompt_footer)
ANSWERS_HEADER_LEN == 27
TABLE_HEADER_LEN == 60
CONTEXT_HEADER_LEN == 40
FOOTER_LEN == 158
\* len(profile_info_full) without the profile's own texts
PROFILE_INFO_FIXED_LEN == 89
\* json.dumps(..., indent=2): the characters of one row of the risk table
\* other than its values, and of one entry of the answers other than its
\* key and value; len(repr(weight)) for the catalogue's weights
ROW_JSON_FIXED_LEN == 160
ENTRY_JSON_FIXED_LEN == 8
WEIGHT_REPR_LEN == 4

Digits(n) == IF n < 10 THEN 1 ELSE IF n < 100 THEN 2 ELSE 3

\* len(static_prompt_header), api.py:415-436
StaticHeaderLen(profile) == STATIC_HEADER_LEN + EmergingTechJoinLen(profile)

\* len_static_prompt, api.py:443-449
LenStaticPrompt(profile) ==
    StaticHeaderLen(profile) + ANSWERS_HEADER_LEN + TABLE_HEADER_LEN
        + CONTEXT_HEADER_LEN + FOOTER_LEN

\* len(profile_info_full), api.py:465
ProfileInfoLen(profile) ==
    PROFILE_INFO_FIXED_LEN + Len(profile.industry) + Len(profile.size)
        + Len(profile.tech_adoption) + profile.security_controls
        + profile.risk_posture + EmergingTechJoinLen(profile)

\* high_risk_answers, api.py:468-472: the answers of the five lowest rows
\* that have one, in row order.
RECURSIVE HighRiskAnswers(_, _, _)
HighRiskAnswers(rows, i, answers) ==
    IF i > Len(rows) THEN <<>>
    ELSE (IF DictHas(answers, rows[i].id)
          THEN <<[key |-> rows[i].id,
                  value |-> DictGet(answers, rows[i].id, NoAnswerProvided)]>>
          ELSE <<>>)
         \o HighRiskAnswers(rows, i + 1, answers)

\* len(json.dumps(d, indent=2)) for a dict of id -> answer text
AnswersJsonLen(d) ==
    IF d = <<>> THEN 2
    ELSE 4 + JoinLen([i \in 1..Len(d) |->
                         ENTRY_JSON_FIXED_LEN + Len(d[i].key) + d[i].value.len], 2)

\* len(json.dumps([rt.dict() for rt in rows], indent=2))
TableJsonLen(rows) ==
    IF rows = <<>> THEN 2
    ELSE 4 + JoinLen([i \in 1..Len(rows) |->
                         ROW_JSON_FIXED_LEN + Len(rows[i].id) + rows[i].category
                           + rows[i].definition + rows[i].scoring_focus
                           + Digits(rows[i].score) + Digits(rows[i].max_score)
                           + WEIGHT_REPR_LEN + rows[i].explanation], 2)

\* A faulty variant of the further cut: the context is left as it is.
UncutContextLen(context) == context

\* The context after the further cut of api.py:458-460.
ShrunkContextLen(context) == SliceLen(context, Max(0, MAX_RAG_CONTEXT_CHARS \div 2))

\* profile_chars_limit, answers_json_chars_limit, risk_table_json_chars_limit
ProfileCharsLimit(budget) == TruncMul(budget, 20, 100)
AnswersJsonCharsLimit(budget) == TruncMul(budget, 40, 100)
RiskTableJsonCharsLimit(budget) == TruncMul(budget, 40, 100)

\* The prompt of api.py:442-497 as its nine blocks in order, each with its
\* length, with the budget arithmetic that produced them.
AssemblePrompt(profile, answers, risk_table, context) ==
    LET len_static == LenStaticPrompt(profile)
        first_budget == TARGET_LLM_PROMPT_TOTAL_CHARS - len_static - context
        shrunk == first_budget < 0
        final_context == IF shrunk THEN ShrunkContextLen(context) ELSE context
        budget == IF shrunk
                  THEN TARGET_LLM_PROMPT_TOTAL_CHARS - len_static - final_context
                  ELSE first_budget
        sorted_risk_rows == SortedByScore(risk_table, 0)
        high_risk_answers ==
            HighRiskAnswers(SubSeq(sorted_risk_rows, 1, Min(5, Len(sorted_risk_rows))),
                            1, answers)
        answers_json_full == AnswersJsonLen(high_risk_answers)
        risk_table_json_full ==
            TableJsonLen(SubSeq(sorted_risk_rows, 1, Min(8, Len(sorted_risk_rows))))
        truncated_profile_info ==
            SliceLen(ProfileInfoLen(profile), ProfileCharsLimit(budget))
        truncated_answers_json ==
            SliceLen(answers_json_full, AnswersJsonCharsLimit(budget))
        truncated_risk_table_json ==
            SliceLen(risk_table_json_full, RiskTableJsonCharsLimit(budget))
        blocks == <<
            [part |-> "static_prompt_header", len |-> StaticHeaderLen(profile)],
            [part |-> "profile", len |-> truncated_profile_info],
            [part |-> "static_prompt_answers_header", len |-> ANSWERS_HEADER_LEN],
            [part |-> "answers", len |-> truncated_answers_json],
            [part |-> "static_prompt_table_header", len |-> TABLE_HEADER_LEN],
            [part |-> "risk_table", len |-> truncated_risk_table_json],
            [part |-> "static_prompt_context_header", len |-> CONTEXT_HEADER_LEN],
            [part |-> "context", len |-> final_context],
            [part |-> "static_prompt_footer", len |-> FOOTER_LEN] >>
    IN  [len_static    |-> len_static,
         given_context |-> context,
         shrunk        |-> shrunk,
         budget        |-> budget,
         full          |-> [profile |-> ProfileInfoLen(profile),
                            answers |-> answers_json_full,
                            risk_table |-> risk_table_json_full],
         high_risk_ids |-> [i \in 1..Len(high_risk_answers) |->
                               high_risk_answers[i].key],
         blocks        |-> blocks,
         final_prompt_len |-> SumLens([i \in 1..Len(blocks) |-> blocks[i].len])]

-----------------------------------------------------------------------------
(* The model's output and its parsing, api.py:504-552.                     *)
(* The output text is a sequence of tokens [k, s]: punctuation, a JSON     *)
(* string literal, a number, the literal null, or a word of prose.  String *)
(* literals and words hold no brace and no quote.  A decoded value is      *)
(* [t, s, items]: a str, a number, None, a list or a dict (its items a     *)
(* dict in insertion order); "text" is the str that holds an output.       *)

Punct(c) == [k |-> "punct", s |-> c]
StrTok(s) == [k |-> "str", s |-> s]
NumTok(s) == [k |-> "num", s |-> s]
NullTok == [k |-> "lit", s |-> "null"]
Word(s) == [k |-> "word", s |-> s]

Str(s) == [t |-> "str", s |-> s, items |-> <<>>]
Num(s) == [t |-> "num", s |-> s, items |-> <<>>]
None == [t |-> "null", s |-> "", items |-> <<>>]
List(items) == [t |-> "list", s |-> "", items |-> items]
Dict(items) == [t |-> "dict", s |-> "", items |-> items]
Text(toks) == [t |-> "text", s |-> "", items |-> toks]

\* json.dumps(value) as tokens.
RECURSIVE Dumps(_), DumpsItems(_, _), DumpsMembers(_, _)
Dumps(v) ==
    CASE v.t = "str"  -> <<StrTok(v.s)>>
      [] v.t = "num"  -> <<NumTok(v.s)>>
      [] v.t = "null" -> <<NullTok>>
      [] v.t = "list" -> <<Punct("[")>> \o DumpsItems(v.items, 1) \o <<Punct("]")>>
      [] v.t = "dict" -> <<Punct("{")>> \o DumpsMembers(v.items, 1) \o <<Punct("}")>>
DumpsItems(items, i) ==
    IF i > Len(items) THEN <<>>
    ELSE Dumps(items[i])
         \o (IF i < Len(items) THEN <<Punct(",")>> ELSE <<>>)
         \o DumpsItems(items, i + 1)
DumpsMembers(items, i) ==
    IF i > Len(items) THEN <<>>
    ELSE <<StrTok(items[i].key), Punct(":")>> \o Dumps(items[i].value)
         \o (IF i < Len(items) THEN <<Punct(",")>> ELSE <<>>)
         \o DumpsMembers(items, i + 1)

\* The JSON decoder on tokens: [ok, value, next], next the index after the
\* value.  A word of prose, a missing separator or a missing bracket fails.
DecodeFailed == [ok |-> FALSE, value |-> None, next |-> 0]
Is(toks, i, c) == i <= Len(toks) /\ toks[i] = Punct(c)

RECURSIVE DecodeValue(_, _), DecodeItems(_, _, _), DecodeMembers(_, _, _)
DecodeValue(toks, i) ==
    IF i > Len(toks) THEN DecodeFailed
    ELSE CASE toks[i].k = "str" -> [ok |-> TRUE, value |-> Str(toks[i].s), next |-> i + 1]
           [] toks[i].k = "num" -> [ok |-> TRUE, value |-> Num(toks[i].s), next |-> i + 1]
           [] toks[i].k = "lit" -> [ok |-> TRUE, value |-> None, next |-> i + 1]
           [] toks[i] = Punct("[") ->
                IF Is(toks, i + 1, "]")
                THEN [ok |-> TRUE, value |-> List(<<>>), next |-> i + 2]
                ELSE DecodeItems(toks, i + 1, <<>>)
           [] toks[i] = Punct("{") ->
                IF Is(toks, i + 1, "}")
                THEN [ok |-> TRUE, value |-> Dict(<<>>), next |-> i + 2]
                ELSE DecodeMembers(toks, i + 1, <<>>)
           [] OTHER -> DecodeFailed
DecodeItems(toks, i, acc) ==
    LET r == DecodeValue(toks, i)
    IN  IF ~r.ok THEN DecodeFailed
        ELSE IF Is(toks, r.next, ",")
        THEN DecodeItems(toks, r.next + 1, Append(acc, r.value))
        ELSE IF Is(toks, r.next, "]")
        THEN [ok |-> TRUE, value |-> List(Append(acc, r.value)), next |-> r.next + 1]
        ELSE DecodeFailed
DecodeMembers(toks, i, acc) ==
    IF ~(i <= Len(toks) /\ toks[i].k = "str" /\ Is(toks, i + 1, ":"))
    THEN DecodeFailed
    ELSE LET r == DecodeValue(toks, i + 2)
         IN  IF ~r.ok THEN DecodeFailed
             ELSE IF Is(toks, r.next, ",")
             THEN DecodeMembers(toks, r.next + 1, DictSet(acc, toks[i].s, r.value))
             ELSE IF Is(toks, r.next, "}")
             THEN [ok |-> TRUE, value |-> Dict(DictSet(acc, toks[i].s, r.value)),
                   next |-> r.next + 1]
             ELSE DecodeFailed

\* json.loads(json_str): one value and nothing after it.
JsonLoads(toks) ==
    LET r == DecodeValue(toks, 1)
    IN  IF r.ok /\ r.next = Len(toks) + 1 THEN r ELSE DecodeFailed

\* re.search(r'\{[\s\S]*\}', output): from the first "{" to the last "}".
Opens(toks) == {i \in 1..Len(toks) : toks[i] = Punct("{")}
Closes(toks) == {i \in 1..Len(toks) : toks[i] = Punct("}")}
MinOf(S) == CHOOSE x \in S : \A y \in S : x <= y
MaxOf(S) == CHOOSE x \in S : \A y \in S : x >= y
\* A faulty variant of the match: from the first "{" to the first "}".
FirstBraceMatch(toks) ==
    IF Opens(toks) # {} /\ Closes(toks) # {} /\ MinOf(Opens(toks)) < MinOf(Closes(toks))
    THEN [found |-> TRUE,
          json_str |-> SubSeq(toks, MinOf(Opens(toks)), MinOf(Closes(toks)))]
    ELSE [found |-> FALSE, json_str |-> <<>>]

BraceMatch(toks) ==
    IF Opens(toks) # {} /\ Closes(toks) # {} /\ MinOf(Opens(toks)) < MaxOf(Closes(toks))
    THEN [found |-> TRUE,
          json_str |-> SubSeq(toks, MinOf(Opens(toks)), MaxOf(Closes(toks)))]
    ELSE [found |-> FALSE, json_str |-> <<>>]

\* Python's truth value and whether len() is defined.
Falsy(v) ==
    \/ v.t = "null"
    \/ v.t = "num" /\ v.s = "0"
    \/ v.t = "str" /\ v.s = ""
    \/ v.t \in {"list", "dict", "text"} /\ v.items = <<>>
HasLen(v) == v.t \in {"str", "text", "list", "dict"}

\* The defaults of api.py:539-543 and 547-550.
DefaultRecommendations ==
    List(<< Str("Implement a formal risk assessment process for emerging technology adoption."),
            Str("Develop a comprehensive security framework aligned with industry standards."),
            Str("Establish clear governance procedures for technology evaluation and implementation.") >>)
Resource(title, url) ==
    Dict(<< [key |-> "title", value |-> Str(title)], [key |-> "url", value |-> Str(url)] >>)
DefaultResources ==
    List(<< Resource("NIST Cybersecurity Framework", "https://www.nist.gov/cyberframework"),
            Resource("ISO/IEC 27001 Information Security Management",
                     "https://www.iso.org/isoiec-27001-information-security.html") >>)

\* The try block of api.py:504-535: what the three names hold after it.
\* llm is the outcome of qa_chain.invoke: it raises, or gives an output.
ParsedFields(llm) ==
    IF llm.raises
    THEN [path |-> "invoke_error",
          recommendations |-> List(<<Str("An error occurred while generating LLM advice.")>>),
          resources |-> List(<<>>),
          raw_llm_summary |-> Str("Error: ...")]
    ELSE LET match == BraceMatch(llm.output)
             decoded == JsonLoads(match.json_str)
             structured_response == decoded.value.items
         IN  IF ~match.found
             THEN [path |-> "no_json",
                   recommendations |->
                       List(<<Str("LLM did not return a JSON object. Storing raw output.")>>),
                   resources |-> List(<<>>),
                   raw_llm_summary |-> Text(llm.output)]
             ELSE IF ~decoded.ok
             THEN [path |-> "decode_error",
                   recommendations |->
                       List(<<Str("LLM response was not valid JSON. Please check logs.")>>),
                   resources |-> List(<<>>),
                   raw_llm_summary |-> Text(llm.output)]
             ELSE [path |-> "decoded",
                   recommendations |->
                       DictGet(structured_response, "recommendations",
                           List(<<Str("LLM failed to provide structured recommendations.")>>)),
                   resources |-> DictGet(structured_response, "resources", List(<<>>)),
                   raw_llm_summary |->
                       DictGet(structured_response, "rawLLMOutput", Text(llm.output))]

\* "if not x or len(x) == 0: x = default", api.py:538 and 546: len() of a
\* truthy value without a length raises TypeError.
LenRaises(v) == ~Falsy(v) /\ ~HasLen(v)
\* A faulty variant of the defaults: an empty value is kept as it is.
KeptWithoutDefault(v, default) == v
OrDefault(v, default) == IF Falsy(v) THEN default ELSE v

\* The parsing step as a whole, api.py:504-552: raised tells that an
\* exception left the function; otherwise the three values are returned.
ParseAdvice(llm) ==
    LET f == ParsedFields(llm)
    IN  IF LenRaises(f.recommendations) \/ LenRaises(f.resources)
        THEN [raised |-> TRUE, path |-> f.path,
              recommendations |-> None, resources |-> None,
              raw_llm_summary |-> None]
        ELSE [raised |-> FALSE, path |-> f.path,
              recommendations |-> OrDefault(f.recommendations, DefaultRecommendations),
              resources |-> OrDefault(f.resources, DefaultResources),
              raw_llm_summary |-> f.raw_llm_summary]

-----------------------------------------------------------------------------
(* load_documents, loader.py:42-64.  A folder is [exists, files]; a file   *)
(* is [suffix, attack, raises, docs]: its suffix as written, whether its   *)
(* lower-cased name contains "attack", whether extracting it raises, and   *)
(* the number of documents its extraction gives otherwise.  A document is  *)
(* [file, n]: the n-th document of the file at that place in the folder.   *)

\* file_path.suffix.lower(), loader.py:47
SuffixLower(suffix) ==
    CASE suffix = ".PDF"  -> ".pdf"
      [] suffix = ".XLSX" -> ".xlsx"
      [] suffix = ".JSON" -> ".json"
      [] OTHER            -> suffix

\* The branch of loader.py:49-60 a file takes.
FileBranch(file) ==
    CASE SuffixLower(file.suffix) = ".pdf" -> "pdf"
      [] SuffixLower(file.suffix) = ".xlsx" -> "xlsx"
      [] SuffixLower(file.suffix) = ".json" /\ file.attack -> "mitre"
      [] OTHER -> "ignored"

\* What the extraction of the i-th file returns.
ExtractedDocuments(i, file) == [n \in 1..file.docs |-> [file |-> i, n |-> n]]

\* A faulty variant of the loop: an extraction that raises is not caught.
RECURSIVE LoadLoopUncaught(_, _, _)
LoadLoopUncaught(files, i, documents) ==
    IF i > Len(files) THEN [raised |-> FALSE, documents |-> documents]
    ELSE IF FileBranch(files[i]) = "ignored"
    THEN LoadLoopUncaught(files, i + 1, documents)
    ELSE IF files[i].raises
    THEN [raised |-> TRUE, documents |-> <<>>]
    ELSE LoadLoopUncaught(files, i + 1,
                          documents \o ExtractedDocuments(i, files[i]))

\* The loop of loader.py:46-62 from file i on: an extraction that raises
\* leaves documents as it was (extend is not reached) and is caught.
RECURSIVE LoadLoop(_, _, _)
LoadLoop(files, i, documents) ==
    IF i > Len(files) THEN [raised |-> FALSE, documents |-> documents]
    ELSE IF FileBranch(files[i]) = "ignored"
    THEN LoadLoop(files, i + 1, documents)
    ELSE IF files[i].raises
    THEN LoadLoop(files, i + 1, documents)
    ELSE LoadLoop(files, i + 1, documents \o ExtractedDocuments(i, files[i]))

\* load_documents: folder.iterdir() raises when the folder does not exist.
LoadDocuments(folder) ==
    IF ~folder.exists THEN [raised |-> TRUE, documents |-> <<>>]
    ELSE LoadLoop(folder.files, 1, <<>>)

-----------------------------------------------------------------------------
(* Bounds of the model and the inputs drawn within them. *)

\* the longest emerging_technologies list
MaxTech == 2
\* the longest list of answers in a request
MaxAnswers == 2
\* the longest recommendations or resources list in a model output
MaxItems == 2

\* the most files in a folder
MaxFiles == 2

NotCalled == [done |-> FALSE]
Returned(r) == [done |-> TRUE, result |-> r]

\* Chunks the search may return: the source missing, short, long, and
\* longer than the whole ceiling; the text empty, under the floor, at the
\* floor, and longer than any budget.
SampleDocs ==
    [source : {-1, 20, 300, 990}, content : {0, 10, 50, 2000}]

\* Outcomes of db.similarity_search(query, k=3).
SearchOutcomes ==
    {[raises |-> FALSE, docs |-> d, message |-> 0] :
        d \in SeqsUpTo(SampleDocs, SEARCH_K)}
    \cup {[raises |-> TRUE, docs |-> <<>>, message |-> m] : m \in {0, 40, 971}}

RetrieveInputs == [db : {"None", "set"}, search : SearchOutcomes]

TechItems ==
    { [len |-> 2, cloud |-> FALSE], [len |-> 15, cloud |-> TRUE],
      [len |-> 1200, cloud |-> FALSE] }

\* Answer texts: the placeholder typed in, a brief plain answer, a
\* moderate one with a positive keyword, a long one with a negative keyword.
AnswerTexts ==
    { NoAnswerProvided,
      [len |-> 10, positive |-> FALSE, negative |-> FALSE, placeholder |-> FALSE],
      [len |-> 72, positive |-> TRUE, negative |-> FALSE, placeholder |-> FALSE],
      [len |-> 2000, positive |-> FALSE, negative |-> TRUE, placeholder |-> FALSE] }

\* The question ids a request may name: two of the catalogue, one unknown.
AnswerIds == {"business_strategy", "grc", "not_a_category"}

AnswerLists ==
    SeqsUpTo([question_id : AnswerIds, answer : AnswerTexts], MaxAnswers)

\* Answer texts for scoring: the placeholder, and texts on both sides of
\* the length thresholds 20 and 100 without keywords, with a positive
\* keyword, with a negative one, and with both.
ScoredAnswerTexts ==
    { NoAnswerProvided }
    \cup [len : {5, 2000}, positive : {FALSE}, negative : {FALSE}, placeholder : {FALSE}]
    \cup [len : {4, 99}, positive : {FALSE}, negative : {TRUE}, placeholder : {FALSE}]
    \cup [len : {19, 20, 100}, positive : {TRUE}, negative : {FALSE}, placeholder : {FALSE}]
    \cup [len : {19, 99, 100}, positive : {TRUE}, negative : {TRUE}, placeholder : {FALSE}]

RiskTableInputs ==
    SeqsUpTo([question_id : AnswerIds, answer : ScoredAnswerTexts], MaxAnswers)

\* Profiles for prompt assembly: what varies is how long the texts are.
AssembleProfiles ==
    [name : {"A"}, industry : {"Healthcare"}, size : {"Small"},
     tech_adoption : {"Leader"}, security_controls : {0, 3000},
     risk_posture : {200},
     emerging_technologies : SeqsUpTo(TechItems, MaxTech)]

\* Context strings handed to the assembly: empty, the no-database message,
\* a full context, and diagnostics longer than the ceiling.
AssembleContexts == {0, NO_DB_MESSAGE_LEN, MAX_RAG_CONTEXT_CHARS, 1600, 4000}

\* Answers for prompt assembly: a brief answer with a negative keyword (it
\* scores lowest, so it reaches the prompt) and a long one, for a category
\* of the catalogue and for an unknown id.
AssembleAnswerLists ==
    SeqsUpTo([question_id : {"business_strategy", "not_a_category"},
              answer : { [len |-> 4, positive |-> FALSE, negative |-> TRUE,
                          placeholder |-> FALSE],
                         [len |-> 2000, positive |-> FALSE, negative |-> FALSE,
                          placeholder |-> FALSE] }],
             MaxAnswers)

AssembleInputs ==
    [profile : AssembleProfiles, answers : AssembleAnswerLists,
     context : AssembleContexts]

\* Profiles for question generation: every branch of the prioritisation.
QuestionProfiles ==
    [name : {"A"}, industry : {"Healthcare", "Retail"},
     size : {"Small", "Enterprise", "Micro"},
     tech_adoption : {"Leader", "Laggard"}, security_controls : {200},
     risk_posture : {200},
     emerging_technologies : SeqsUpTo(TechItems, MaxTech)]

-----------------------------------------------------------------------------
(* Outputs of the model. *)

Absent == [t |-> "absent", s |-> "", items |-> <<>>]

RecommendationTexts == {"A", "B"}
ResourceValues == {Resource("T1", "U1"), Resource("T2", "")}
SummaryTexts == {"x", ""}

StrList(seq) == List([i \in 1..Len(seq) |-> Str(seq[i])])

\* A valid advice: recommendations a list of strings, resources a list of
\* {title, url}, rawLLMOutput a string.
ValidAdvices ==
    [recommendations : {StrList(s) : s \in SeqsUpTo(RecommendationTexts, MaxItems)},
     resources : {List(s) : s \in SeqsUpTo(ResourceValues, MaxItems)},
     rawLLMOutput : {Str(s) : s \in SummaryTexts}]

\* Field values of unexpected type, and a field left out.
OddRecommendations ==
    {Absent, Str("do this"), Num("5"), Num("0"), None, List(<<Num("5")>>),
     Dict(<<[key |-> "first", value |-> Str("A")]>>)}
OddResources ==
    {Absent, Str("see docs"), Num("5"), None, List(<<Str("T1")>>),
     List(<<Dict(<<[key |-> "title", value |-> Num("5")]>>)>>)}
OddSummaries == {Absent, Num("5"), None, List(<<Str("x")>>)}

\* The JSON object with the fields that are present.
AdviceObject(recommendations, resources, rawLLMOutput) ==
    Dict( (IF recommendations = Absent THEN <<>>
           ELSE <<[key |-> "recommendations", value |-> recommendations]>>)
       \o (IF resources = Absent THEN <<>>
           ELSE <<[key |-> "resources", value |-> resources]>>)
       \o (IF rawLLMOutput = Absent THEN <<>>
           ELSE <<[key |-> "rawLLMOutput", value |-> rawLLMOutput]>>) )

\* serialize(advice): json.dumps of the three fields.
Serialize(advice) ==
    Dumps(AdviceObject(advice.recommendations, advice.resources, advice.rawLLMOutput))

OddObjects ==
    {AdviceObject(r, s, u) :
        r \in OddRecommendations \cup {StrList(<<"A">>)},
        s \in OddResources \cup {List(<<>>)},
        u \in OddSummaries \cup {Str("x")}}

Preambles == {<<>>, <<Word("Some"), Word("preamble")>>}
Trailers == {<<>>, <<Word("trailing")>>}

\* A sequence with its i-th element left out.
Without(seq, i) == SubSeq(seq, 1, i - 1) \o SubSeq(seq, i + 1, Len(seq))

SmallAdvice == [recommendations |-> StrList(<<"A">>), resources |-> List(<<>>),
                rawLLMOutput |-> Str("x")]

\* Outcomes of qa_chain.invoke: the call raises; a serialised valid advice
\* inside brace-free prose; an object with odd fields; a serialised advice
\* with one token lost; two objects one after the other; short texts of
\* braces and words.
LlmOutcome(kind, advice, output) ==
    [raises |-> kind = "raises", kind |-> kind, advice |-> advice, output |-> output]

LlmOutcomes ==
    {LlmOutcome("raises", SmallAdvice, <<>>)}
    \cup {LlmOutcome("advice", a, pre \o Serialize(a) \o post) :
            a \in ValidAdvices, pre \in Preambles, post \in Trailers}
    \cup {LlmOutcome("odd", SmallAdvice, Dumps(o)) : o \in OddObjects}
    \cup {LlmOutcome("damaged", SmallAdvice, Without(Serialize(SmallAdvice), i)) :
            i \in 1..Len(Serialize(SmallAdvice))}
    \cup {LlmOutcome("two_objects", SmallAdvice, Serialize(a) \o Serialize(SmallAdvice)) :
            a \in ValidAdvices}
    \cup {LlmOutcome("text", SmallAdvice, s) :
            s \in SeqsUpTo({Punct("{"), Punct("}"), Word("advice"), StrTok("A")}, 3)}

\* Files of a folder: supported and unsupported suffixes in both cases, a
\* .json with and without "attack" in its name, extractions that give one
\* or two documents or raise.
SampleFiles ==
    [suffix : {".pdf", ".PDF", ".xlsx", ".txt"}, attack : {FALSE},
     raises : BOOLEAN, docs : {1, 2}]
    \cup [suffix : {".json"}, attack : BOOLEAN, raises : BOOLEAN, docs : {1, 2}]

Folders ==
    {[exists |-> FALSE, files |-> <<>>]}
    \cup [exists : {TRUE}, files : SeqsUpTo(SampleFiles, MaxFiles)]

-----------------------------------------------------------------------------
(* The service before start-up, for the specifications of single functions. *)

NoResponse ==
    [op |-> "none", client |-> "none", status |-> 0, queried |-> FALSE,
     llm_calls |-> 0, body |-> [empty |-> TRUE]]

SvcIdle ==
    /\ embedder = "None" /\ db = "None" /\ qa_chain = "None"
    /\ session_context = <<>>
    /\ startup_pc = "embedder"
    /\ env = [store |-> "absent", folder_docs |-> 0]
    /\ resp = NoResponse
RetIdle == ret_in = NotCalled /\ ret_out = NotCalled
AsmIdle == asm_in = NotCalled /\ asm_out = NotCalled
ParIdle == par_in = NotCalled /\ par_out = NotCalled
QIdle == q_in = NotCalled /\ q_out = NotCalled
RtIdle == rt_in = NotCalled /\ rt_out = NotCalled
LdIdle == ld_in = NotCalled /\ ld_out = NotCalled

-----------------------------------------------------------------------------
(* retrieve_rag_context on its own. *)

RetrieveInit ==
    /\ ret_in \in RetrieveInputs /\ ret_out = NotCalled
    /\ SvcIdle /\ AsmIdle /\ ParIdle /\ QIdle /\ RtIdle /\ LdIdle

CallRetrieve ==
    /\ ~ret_out.done
    /\ ret_out' = Returned(RetrieveRagContext(ret_in.db, ret_in.search))
    /\ UNCHANGED <<ret_in, svc_vars, asm_vars, par_vars, q_vars, rt_vars, ld_vars>>

SpecRetrieve == RetrieveInit /\ [][CallRetrieve]_vars

-----------------------------------------------------------------------------
(* Prompt assembly on its own: the risk table is the one build_risk_table  *)
(* gives for the answers.                                                  *)

AssembleInit ==
    /\ asm_in \in AssembleInputs /\ asm_out = NotCalled
    /\ SvcIdle /\ RetIdle /\ ParIdle /\ QIdle /\ RtIdle /\ LdIdle

CallAssemble ==
    /\ ~asm_out.done
    /\ asm_out' = Returned(
           LET answers == AnswersDict(asm_in.answers)
           IN  AssemblePrompt(asm_in.profile, answers,
                              BuildRiskTable(answers).table, asm_in.context))
    /\ UNCHANGED <<asm_in, svc_vars, ret_vars, par_vars, q_vars, rt_vars, ld_vars>>

SpecAssemble == AssembleInit /\ [][CallAssemble]_vars

-----------------------------------------------------------------------------
(* The parsing step on its own. *)

ParseInit ==
    /\ par_in \in LlmOutcomes /\ par_out = NotCalled
    /\ SvcIdle /\ RetIdle /\ AsmIdle /\ QIdle /\ RtIdle /\ LdIdle

CallParse ==
    /\ ~par_out.done
    /\ par_out' = Returned(ParseAdvice(par_in))
    /\ UNCHANGED <<par_in, svc_vars, ret_vars, asm_vars, q_vars, rt_vars, ld_vars>>

SpecParse == ParseInit /\ [][CallParse]_vars

-----------------------------------------------------------------------------
(* generate_dynamic_questions on its own. *)

QuestionsInit ==
    /\ q_in \in QuestionProfiles /\ q_out = NotCalled
    /\ SvcIdle /\ RetIdle /\ AsmIdle /\ ParIdle /\ RtIdle /\ LdIdle

CallQuestions ==
    /\ ~q_out.done
    /\ q_out' = Returned(GenerateDynamicQuestions(q_in))
    /\ UNCHANGED <<q_in, svc_vars, ret_vars, asm_vars, par_vars, rt_vars, ld_vars>>

SpecQuestions == QuestionsInit /\ [][CallQuestions]_vars

-----------------------------------------------------------------------------
(* build_risk_table on its own, for the answers_dict of a request. *)

RiskTableInit ==
    /\ rt_in \in [answers : RiskTableInputs] /\ rt_out = NotCalled
    /\ SvcIdle /\ RetIdle /\ AsmIdle /\ ParIdle /\ QIdle /\ LdIdle

CallRiskTable ==
    /\ ~rt_out.done
    /\ rt_out' = Returned(BuildRiskTable(AnswersDict(rt_in.answers)))
    /\ UNCHANGED <<rt_in, svc_vars, ret_vars, asm_vars, par_vars, q_vars, ld_vars>>

SpecRiskTable == RiskTableInit /\ [][CallRiskTable]_vars

-----------------------------------------------------------------------------
(* load_documents on its own. *)

LoadInit ==
    /\ ld_in \in [folder : Folders] /\ ld_out = NotCalled
    /\ SvcIdle /\ RetIdle /\ AsmIdle /\ ParIdle /\ QIdle /\ RtIdle

CallLoad ==
    /\ ~ld_out.done
    /\ ld_out' = Returned(LoadDocuments(ld_in.folder))
    /\ UNCHANGED <<ld_in, svc_vars, ret_vars, asm_vars, par_vars, q_vars, rt_vars>>

SpecLoad == LoadInit /\ [][CallLoad]_vars

-----------------------------------------------------------------------------
(* The service: start-up and the request handlers, api.py:50-220.          *)
(* env is what the process finds on disk: store is the persisted vector    *)
(* store ("absent", "intact", or corrupted so that opening it raises       *)
(* KeyError or some other exception), folder_docs the number of documents  *)
(* load_documents extracts from the data folder.                           *)

\* the most documents in the data folder
MaxFolderDocs == 1

StoreStates == {"absent", "intact", "corrupt_KeyError", "corrupt_other"}

\* load_existing_embeddings, store.py:28-55: only KeyError is caught.
LoadExistingEmbeddings(e) ==
    CASE e.store = "intact" ->
             [raised |-> FALSE, db |-> "set", env |-> e]
      [] e.store = "corrupt_KeyError" ->
             IF e.folder_docs = 0
             THEN [raised |-> TRUE, db |-> "None",
                   env |-> [e EXCEPT !.store = "absent"]]
             ELSE [raised |-> FALSE, db |-> "set",
                   env |-> [e EXCEPT !.store = "intact"]]
      [] OTHER ->
             [raised |-> TRUE, db |-> "None", env |-> e]

\* The else branch of api.py:66-71: build the store from the folder.
BuildFromDocuments(e) ==
    IF e.folder_docs = 0
    THEN [raised |-> TRUE, db |-> "None", env |-> e]
    ELSE [raised |-> FALSE, db |-> "set", env |-> [e EXCEPT !.store = "intact"]]

\* api.py:64-71: load the persisted store when there is one, else build it.
InitializeVectorStore(e) ==
    IF e.store # "absent" THEN LoadExistingEmbeddings(e) ELSE BuildFromDocuments(e)

\* startup_event, api.py:58-61: get_embedder() gives an embedder, gives
\* nothing, or raises.
StartEmbedder ==
    /\ startup_pc = "embedder"
    /\ \E outcome \in {"ok", "nothing", "raises"} :
          /\ embedder' = IF outcome = "ok" THEN "set" ELSE "None"
          /\ startup_pc' = IF outcome = "ok" THEN "index" ELSE "failed"
    /\ UNCHANGED <<db, qa_chain, session_context, env, resp>>
    /\ UNCHANGED <<ret_vars, asm_vars, par_vars, q_vars, rt_vars, ld_vars>>

\* startup_event, api.py:63-74.
StartIndex ==
    /\ startup_pc = "index"
    /\ LET r == InitializeVectorStore(env)
       IN  /\ db' = r.db
           /\ env' = r.env
           /\ startup_pc' = IF r.raised THEN "failed" ELSE "chain"
    /\ UNCHANGED <<embedder, qa_chain, session_context, resp>>
    /\ UNCHANGED <<ret_vars, asm_vars, par_vars, q_vars, rt_vars, ld_vars>>

\* startup_event, api.py:76-80: build_rag_chain(db) gives the chain or raises.
StartChain ==
    /\ startup_pc = "chain"
    /\ \E outcome \in {"ok", "raises"} :
          /\ qa_chain' = IF outcome = "ok" THEN "set" ELSE "None"
          /\ startup_pc' = IF outcome = "ok" THEN "done" ELSE "failed"
    /\ UNCHANGED <<embedder, db, session_context, env, resp>>
    /\ UNCHANGED <<ret_vars, asm_vars, par_vars, q_vars, rt_vars, ld_vars>>

\* A faulty variant of the readiness test: the vector store instead of the chain.
VectorStoreReady == db # "None"

\* "if not qa_chain", api.py:87, 163, 180
ServiceReady == qa_chain # "None"

\* A faulty variant of the handler's store: the profile is not kept.
ProfileNotStored(session, profile) == session

\* session_context["profile"] = profile, api.py:168
StoreProfile(session, profile) == DictSet(session, "profile", profile)

\* "if not profile" after session_context.get("profile"), api.py:184-185
NoProfileFound(session) == ~DictHas(session, "profile")

\* A response: the handler, the client that sent the request, the HTTP
\* status, whether the vector index was queried and how often the model
\* was invoked while handling it, and the body.
Response(op, client, status, queried, llm_calls, body) ==
    [op |-> op, client |-> client, status |-> status, queried |-> queried,
     llm_calls |-> llm_calls, body |-> body]
NoBody == [empty |-> TRUE]

\* health_check, api.py:85-90
HealthCheck(client) ==
    /\ resp' = Response("health", client, IF ServiceReady THEN 200 ELSE 503,
                        FALSE, 0, NoBody)
    /\ UNCHANGED <<embedder, db, qa_chain, session_context, startup_pc, env>>
    /\ UNCHANGED <<ret_vars, asm_vars, par_vars, q_vars, rt_vars, ld_vars>>

\* initialize_assessment, api.py:161-176
InitializeAssessment(client, profile) ==
    /\ IF ~ServiceReady
       THEN /\ resp' = Response("initialize", client, 503, FALSE, 0, NoBody)
            /\ UNCHANGED session_context
       ELSE /\ session_context' = StoreProfile(session_context, profile)
            /\ LET questions == GenerateDynamicQuestions(profile)
               IN  resp' = IF questions = <<>>
                           THEN Response("initialize", client, 500, FALSE, 0, NoBody)
                           ELSE Response("initialize", client, 200, FALSE, 0,
                                         [questions |-> questions])
    /\ UNCHANGED <<embedder, db, qa_chain, startup_pc, env>>
    /\ UNCHANGED <<ret_vars, asm_vars, par_vars, q_vars, rt_vars, ld_vars>>

\* RiskAssessmentResult(...), api.py:210-217: recommendations must be a
\* list of str, resources a list of dicts of str, raw_llm_output a str or None.
ResultValidates(advice) ==
    /\ advice.recommendations.t = "list"
    /\ \A i \in 1..Len(advice.recommendations.items) :
          advice.recommendations.items[i].t \in {"str", "text"}
    /\ advice.resources.t = "list"
    /\ \A i \in 1..Len(advice.resources.items) :
          /\ advice.resources.items[i].t = "dict"
          /\ \A j \in 1..Len(advice.resources.items[i].items) :
                advice.resources.items[i].items[j].value.t \in {"str", "text"}
    /\ advice.raw_llm_summary.t \in {"str", "text", "null"}

\* The try block of submit_answers, api.py:189-220, for the stored profile.
ProcessAnswers(client, profile, answers, search, llm) ==
    LET answers_dict == AnswersDict(answers)
        risk == BuildRiskTable(answers_dict)
        query == RetrievalQuery(profile, answers_dict, risk.table)
        context == RetrieveRagContext(db, search)
        prompt == AssemblePrompt(profile, answers_dict, risk.table, context.len)
        advice == ParseAdvice(llm)
        body == [profile_name |-> profile.name, profile |-> profile,
                 answers |-> answers_dict, risk |-> risk, query |-> query,
                 context |-> context, prompt |-> prompt,
                 llm |-> llm.kind, advice |-> advice]
    IN  IF context.raised
        THEN Response("submit", client, 500, context.queried, 0, body)
        ELSE Response("submit", client,
                 IF advice.raised \/ ~ResultValidates(advice) THEN 500 ELSE 200,
                 context.queried, 1, body)

\* submit_answers, api.py:178-220
SubmitAnswers(client, answers, search, llm) ==
    /\ resp' =
          IF ~ServiceReady
          THEN Response("submit", client, 503, FALSE, 0, NoBody)
          ELSE IF NoProfileFound(session_context)
          THEN Response("submit", client, 400, FALSE, 0, NoBody)
          ELSE ProcessAnswers(client, DictGet(session_context, "profile", NoBody),
                              answers, search, llm)
    /\ UNCHANGED <<embedder, db, qa_chain, session_context, startup_pc, env>>
    /\ UNCHANGED <<ret_vars, asm_vars, par_vars, q_vars, rt_vars, ld_vars>>

-----------------------------------------------------------------------------
(* Clients and what they send.  A client's profiles carry its name. *)

Clients == {"A", "B"}

ClientProfiles(client) ==
    [name : {client},
     industry : {IF client = "A" THEN "Healthcare" ELSE "Retail"},
     size : {IF client = "A" THEN "Small" ELSE "Enterprise"},
     tech_adoption : {"Leader"}, security_controls : {200},
     risk_posture : {200},
     emerging_technologies : {<<>>, <<[len |-> 15, cloud |-> TRUE]>>}]

RequestAnswers ==
    { <<>>,
      <<[question_id |-> "business_strategy",
         answer |-> [len |-> 4, positive |-> FALSE, negative |-> TRUE,
                     placeholder |-> FALSE]]>>,
      <<[question_id |-> "grc",
         answer |-> [len |-> 72, positive |-> TRUE, negative |-> FALSE,
                     placeholder |-> FALSE]],
        [question_id |-> "not_a_category",
         answer |-> [len |-> 10, positive |-> FALSE, negative |-> FALSE,
                     placeholder |-> FALSE]]>> }

RequestSearches ==
    { [raises |-> TRUE, docs |-> <<>>, message |-> 40],
      [raises |-> FALSE, message |-> 0,
       docs |-> <<[source |-> 20, content |-> 2000],
                  [source |-> -1, content |-> 10]>>] }

RequestLlmOutcomes ==
    { LlmOutcome("raises", SmallAdvice, <<>>),
      LlmOutcome("advice", SmallAdvice,
                 <<Word("Some"), Word("preamble")>> \o Serialize(SmallAdvice)),
      LlmOutcome("odd", SmallAdvice,
                 Dumps(AdviceObject(Num("5"), List(<<>>), Str("x")))) }

Init ==
    /\ embedder = "None" /\ db = "None" /\ qa_chain = "None"
    /\ session_context = <<>>
    /\ startup_pc = "embedder"
    /\ env \in [store : StoreStates, folder_docs : 0..MaxFolderDocs]
    /\ resp = NoResponse
    /\ RetIdle /\ AsmIdle /\ ParIdle /\ QIdle /\ RtIdle /\ LdIdle

Next ==
    \/ StartEmbedder
    \/ StartIndex
    \/ StartChain
    \/ \E c \in Clients : HealthCheck(c)
    \/ \E c \in Clients : \E p \in ClientProfiles(c) : InitializeAssessment(c, p)
    \/ \E c \in Clients, a \in RequestAnswers, s \in RequestSearches,
          l \in RequestLlmOutcomes : SubmitAnswers(c, a, s, l)

Spec == Init /\ [][Next]_vars

-----------------------------------------------------------------------------
(* Claims about single functions. *)

\* C1: for all inputs the prompt assembled by generate_llm_advice_async is
\* at most TARGET_LLM_PROMPT_TOTAL_CHARS characters long.
C1_PromptWithinTarget ==
    asm_out.done =>
        asm_out.result.final_prompt_len <= TARGET_LLM_PROMPT_TOTAL_CHARS

\* C2: for every call of retrieve_rag_context, also when the search raises
\* or the store is not initialised, the returned context is at most
\* MAX_RAG_CONTEXT_CHARS characters long.
C2_ContextWithinCeiling ==
    ret_out.done => ret_out.result.len <= MAX_RAG_CONTEXT_CHARS

\* C3 as stated: every chunk included in the context contributes content of
\* at least 50 characters, whatever the length of the chunk's text.
C3_EveryChunkHasFloorContent ==
    ret_out.done =>
        \A i \in 1..Len(ret_out.result.parts) :
            ret_out.result.parts[i].content >= MIN_DOC_CONTENT

\* C3 as amended: every included chunk contributes its text cut to a
\* budget of at least 50 characters, that is, at least 50 characters or
\* all of a text shorter than that.
C3_ChunkContentFloorOrWhole ==
    ret_out.done =>
        \A i \in 1..Len(ret_out.result.parts) :
            LET part == ret_out.result.parts[i]
            IN  /\ part.content <= part.original
                /\ part.content >= Min(MIN_DOC_CONTENT, part.original)

\* A context that includes a chunk whose share of the ceiling is under the
\* floor and whose content is exactly the floor, and a chunk shorter than
\* the floor included whole.
C3_Witness ==
    /\ ret_out.done
    /\ \E i \in 1..Len(ret_out.result.parts) :
          LET part == ret_out.result.parts[i]
          IN  /\ (MAX_RAG_CONTEXT_CHARS \div Len(ret_in.search.docs))
                     - part.source_info - SEPARATOR_LEN - BUDGET_SLACK
                   < MIN_DOC_CONTENT
              /\ part.original > MIN_DOC_CONTENT
              /\ part.content = MIN_DOC_CONTENT
    /\ \E i \in 1..Len(ret_out.result.parts) :
          /\ ret_out.result.parts[i].original < MIN_DOC_CONTENT
          /\ ret_out.result.parts[i].content = ret_out.result.parts[i].original

IsStrValue(v) == v.t \in {"str", "text"}
IsResourceValue(v) ==
    /\ v.t = "dict"
    /\ {v.items[i].key : i \in 1..Len(v.items)} = {"title", "url"}
    /\ \A i \in 1..Len(v.items) : IsStrValue(v.items[i].value)
WellFormedAdvice(r) ==
    /\ r.recommendations.t = "list"
    /\ \A i \in 1..Len(r.recommendations.items) : IsStrValue(r.recommendations.items[i])
    /\ r.resources.t = "list"
    /\ \A i \in 1..Len(r.resources.items) : IsResourceValue(r.resources.items[i])
    /\ IsStrValue(r.raw_llm_summary)

\* C4: for any output of the model the parsing step never raises and
\* returns recommendations that are a sequence of strings, resources that
\* are a sequence of {title, url} records, and a summary that is a string.
C4_ParsingTotalAndWellFormed ==
    par_out.done => ~par_out.result.raised /\ WellFormedAdvice(par_out.result)

C10_OneQuestionPerCategory ==
    q_out.done =>
        /\ Len(q_out.result) = Len(RISK_CATEGORIES_DEFINITION)
        /\ \A i \in 1..Len(q_out.result) :
              /\ q_out.result[i].id = RISK_CATEGORIES_DEFINITION[i].id
              /\ q_out.result[i].question_text > 0

\* Questions generated for a profile that prioritises some categories, does
\* not mention cloud and names two technologies: the wording differs, the
\* questions are still the catalogue's.
C10_Witness ==
    /\ q_out.done
    /\ Len(q_out.result) > 20
    /\ \E i \in 1..Len(q_out.result) : q_out.result[i].prioritized
    /\ \E i \in 1..Len(q_out.result) : ~q_out.result[i].prioritized
    /\ \E i \in 1..Len(q_out.result) : q_out.result[i].wording = "cloud_services"
    /\ Len(q_in.emerging_technologies) = 2

-----------------------------------------------------------------------------
(* Claims about the service. *)

\* A request whose response the step delivers.
Answered(op) == resp' # resp /\ resp'.op = op

\* C6: whenever a persisted store is present but cannot be opened, whatever
\* the open raises, start-up rebuilds the index from the document folder and
\* has a usable store over an intact persisted store; the index step fails
\* only if the folder gives zero documents.
C6_IndexSelfHeals ==
    /\ db = "set" => env.store = "intact"
    /\ (startup_pc = "failed" /\ embedder = "set" /\ db = "None")
           => env.folder_docs = 0

\* C7: against a ready service, submit-answers answers 400 exactly when no
\* profile is stored; a successful initialize-assessment stores a profile,
\* and no step removes a stored profile.
C7_ProfileCheck ==
    [][ /\ (Answered("submit") /\ ServiceReady)
            => (resp'.status = 400 <=> ~DictHas(session_context, "profile"))
        /\ (Answered("initialize") /\ resp'.status = 200)
            => DictHas(session_context', "profile")
        /\ DictHas(session_context, "profile")
            => DictHas(session_context', "profile") ]_vars

\* Before any profile is stored a ready service answers submit-answers 400.
C7_Witness ==
    /\ resp.op = "submit" /\ resp.status = 400
    /\ ServiceReady /\ ~DictHas(session_context, "profile")

\* C8: for any interleaving of two clients' requests, the answers a client
\* submits are processed with the profile the same client submitted.
C8_OwnProfileUsed ==
    (resp.op = "submit" /\ resp.status \in {200, 500})
        => resp.body.profile_name = resp.client

\* C9: the health probe answers ready exactly when start-up has completed;
\* while it has not, or after it failed, initialize-assessment and
\* submit-answers answer 503, store nothing, do not query the vector index
\* and do not invoke the model.
C9_ReadyIffStarted ==
    [][ /\ Answered("health")
            => (resp'.status = 200 <=> startup_pc = "done")
        /\ ((Answered("initialize") \/ Answered("submit")) /\ startup_pc # "done")
            => /\ resp'.status = 503
               /\ ~resp'.queried /\ resp'.llm_calls = 0
               /\ session_context' = session_context ]_vars

\* The vector store is built and the chain is not: a submit-answers request
\* was answered 503.
C9_Witness ==
    /\ resp.op = "submit" /\ resp.status = 503
    /\ db = "set" /\ qa_chain = "None" /\ startup_pc \in {"chain", "failed"}

-----------------------------------------------------------------------------
(* Claims about build_risk_table. *)

\* The answer text build_risk_table scores for a category: the last answer
\* the request gives for the category's id, else the placeholder.
AnswerFor(answers, id) ==
    IF \E j \in 1..Len(answers) : answers[j].question_id = id
    THEN answers[CHOOSE j \in 1..Len(answers) :
                    /\ answers[j].question_id = id
                    /\ \A k \in (j + 1)..Len(answers) : answers[k].question_id # id].answer
    ELSE NoAnswerProvided

\* The length-based score as the claim states it.
LengthScore(a) ==
    IF a.placeholder THEN 2 ELSE IF a.len < 20 THEN 4 ELSE IF a.len < 100 THEN 6 ELSE 8

\* C11: every category whose answer contains a positive keyword is scored
\* min(max_score, base + 2), base being the length-based score, also when
\* the answer contains a negative keyword as well.
C11_PositiveKeywordBoost ==
    rt_out.done =>
        \A i \in 1..Len(rt_out.result.table) :
            LET row == rt_out.result.table[i]
                a == AnswerFor(rt_in.answers, row.id)
            IN  a.positive => row.score = Min(row.max_score, LengthScore(a) + 2)

\* A table with a row for an answer of 100 characters that holds a positive
\* and a negative keyword, scored 10, and a row for one of 19 characters
\* that holds a positive keyword, scored 6.
C11_Witness ==
    /\ rt_out.done
    /\ \E i \in 1..Len(rt_out.result.table) :
          LET a == AnswerFor(rt_in.answers, rt_out.result.table[i].id)
          IN  a.positive /\ a.negative /\ a.len = 100
              /\ rt_out.result.table[i].score = 10
    /\ \E i \in 1..Len(rt_out.result.table) :
          LET a == AnswerFor(rt_in.answers, rt_out.result.table[i].id)
          IN  a.positive /\ a.len = 19 /\ rt_out.result.table[i].score = 6

\* C12: for every answers map the table has exactly one row per catalogue
\* category, in catalogue order, each with 0 <= score <= max_score, and the
\* overall weighted score 100 * weighted / (10 * weights) is in 0..100.
C12_RowsAndOverallInRange ==
    rt_out.done =>
        /\ Len(rt_out.result.table) = Len(RISK_CATEGORIES_DEFINITION)
        /\ \A i \in 1..Len(rt_out.result.table) :
              /\ rt_out.result.table[i].id = RISK_CATEGORIES_DEFINITION[i].id
              /\ rt_out.result.table[i].score >= 0
              /\ rt_out.result.table[i].score <= rt_out.result.table[i].max_score
        /\ rt_out.result.weights > 0
        /\ 100 * rt_out.result.weighted >= 0
        /\ 100 * rt_out.result.weighted <= 100 * 10 * rt_out.result.weights

\* A table for answers to two categories and to an unknown id: one
\* category scored at the top of the range, the unanswered ones 2.
C12_Witness ==
    /\ rt_out.done
    /\ Len(rt_in.answers) = 2
    /\ \E j \in 1..2 : rt_in.answers[j].question_id = "not_a_category"
    /\ \E i \in 1..Len(rt_out.result.table) :
          rt_out.result.table[i].score = rt_out.result.table[i].max_score
    /\ \E i \in 1..Len(rt_out.result.table) : rt_out.result.table[i].score = 2

-----------------------------------------------------------------------------
(* Claims about the processing of a submit-answers request. *)

\* A submit-answers request got as far as processing its answers.
Processed == resp.op = "submit" /\ resp.status \in {200, 500}

\* The answers map without the entries whose id is no catalogue category.
KnownAnswersOnly(answers) ==
    SelectSeq(answers, LAMBDA e : e.key \in CategoryIds)

\* C13: answers whose id is no known category are ignored throughout: the
\* risk table, the overall score, the retrieval query and the assembled
\* prompt are those of the request without such answers, and a category
\* without an answer is scored as the placeholder.
C13_UnknownAnswersIgnored ==
    Processed =>
        LET known == KnownAnswersOnly(resp.body.answers)
            risk == BuildRiskTable(known)
        IN  /\ resp.body.risk = risk
            /\ resp.body.query = RetrievalQuery(resp.body.profile, known, risk.table)
            /\ resp.body.prompt =
                  AssemblePrompt(resp.body.profile, known, risk.table,
                                 resp.body.context.len)
            /\ \A i \in 1..Len(resp.body.risk.table) :
                  ~DictHas(resp.body.answers, resp.body.risk.table[i].id)
                      => resp.body.risk.table[i].score = 2

-----------------------------------------------------------------------------
(* Claims about the fallbacks of the parsing step. *)

ParseFailureMessages ==
    { "LLM did not return a JSON object. Storing raw output.",
      "LLM response was not valid JSON. Please check logs." }

\* The output has no "{" followed, at once or later, by a "}".
NoBraceSpan(output) ==
    ~\E i, j \in 1..Len(output) :
        i < j /\ output[i] = Punct("{") /\ output[j] = Punct("}")

\* The parsing step took one of its two fallbacks for unusable output; it
\* takes the first when there is no span from a "{" to a "}", and the
\* second for two objects one after the other.
ParseFallbackTaken ==
    /\ par_out.done
    /\ ~par_in.raises
    /\ par_out.result.path \in {"no_json", "decode_error"}
FallbackWhereClaimed ==
    par_out.done /\ ~par_in.raises =>
        /\ NoBraceSpan(par_in.output) => par_out.result.path = "no_json"
        /\ par_in.kind = "two_objects" => par_out.result.path = "decode_error"

-----------------------------------------------------------------------------
(* Claims about failures during a submit-answers request. *)

\* C15: retrieve_rag_context never raises to its caller: when the search
\* or the handling of its chunks raises, the context is a diagnostic
\* string, the prompt is assembled with it and the model is invoked, so a
\* request whose model output is a valid advice is still answered 200.
C15_RetrievalFailureContained ==
    Processed =>
        /\ ~resp.body.context.raised
        /\ resp.body.context.path = "error" =>
              /\ resp.body.context.len >= ERROR_PREFIX_LEN
              /\ resp.body.prompt.given_context = resp.body.context.len
              /\ resp.llm_calls = 1
              /\ resp.body.llm = "advice" => resp.status = 200

\* The search raised during a request and the request was answered 200.
C15_Witness ==
    /\ Processed /\ resp.status = 200
    /\ resp.body.context.path = "error" /\ resp.queried
    /\ resp.llm_calls = 1

\* C16: for every submit-answers request the model is invoked at most
\* once, and when that call fails the request is answered with an error,
\* not with a successful result.
C16_ModelFailureSurfaces ==
    resp.op = "submit" =>
        /\ resp.llm_calls <= 1
        /\ (Processed /\ resp.body.llm = "raises") => resp.status >= 400

-----------------------------------------------------------------------------
(* Claims about the budget of prompt assembly. *)

\* len(", ".join(emerging_technologies)) from the lengths of the items.
TechListLen(profile) ==
    IF profile.emerging_technologies = <<>> THEN 0
    ELSE SumLens([i \in 1..Len(profile.emerging_technologies) |->
                     profile.emerging_technologies[i].len])
         + 2 * (Len(profile.emerging_technologies) - 1)

\* The lengths of the five static parts for a profile, in prompt order.
StaticPartLens(profile) ==
    << STATIC_HEADER_LEN + TechListLen(profile), ANSWERS_HEADER_LEN,
       TABLE_HEADER_LEN, CONTEXT_HEADER_LEN, FOOTER_LEN >>

\* C17: the five static parts are in the prompt whole and in order; when
\* static length plus context length exceeds the target, the context is
\* cut to its first MAX_RAG_CONTEXT_CHARS \div 2 characters, else it is
\* kept; and the budget shared by profile, answers and risk table is what
\* the target leaves after the static parts and that context.
C17_StaticWholeContextCutFirst ==
    asm_out.done =>
        LET r == asm_out.result
            static == StaticPartLens(asm_in.profile)
            over == SumLens(static) + asm_in.context > TARGET_LLM_PROMPT_TOTAL_CHARS
            kept == IF over THEN Min(asm_in.context, MAX_RAG_CONTEXT_CHARS \div 2)
                    ELSE asm_in.context
            left == TARGET_LLM_PROMPT_TOTAL_CHARS - SumLens(static) - kept
        IN  /\ [i \in 1..Len(r.blocks) |-> r.blocks[i].part] =
                  << "static_prompt_header", "profile",
                     "static_prompt_answers_header", "answers",
                     "static_prompt_table_header", "risk_table",
                     "static_prompt_context_header", "context",
                     "static_prompt_footer" >>
            /\ \A k \in 1..5 : r.blocks[2 * k - 1].len = static[k]
            /\ r.shrunk = over
            /\ r.blocks[8].len = kept
            /\ r.budget = left
            /\ r.blocks[2].len = SliceLen(r.full.profile, TruncMul(left, 20, 100))
            /\ r.blocks[4].len = SliceLen(r.full.answers, TruncMul(left, 40, 100))
            /\ r.blocks[6].len = SliceLen(r.full.risk_table, TruncMul(left, 40, 100))

\* A context of 4000 characters was cut to 500 and the budget left after
\* it is positive.
C17_Witness ==
    /\ asm_out.done
    /\ asm_in.context = 4000
    /\ asm_out.result.shrunk
    /\ asm_out.result.blocks[8].len = MAX_RAG_CONTEXT_CHARS \div 2
    /\ asm_out.result.budget > 0

\* C18: profile, answers and risk table are cut to at most 20%, 40% and
\* 40%, rounded down, of the leftover budget, whatever the budget is, zero
\* and negative included, so together they are never longer than the
\* leftover budget allows.
C18_SharesWithinBudget ==
    asm_out.done =>
        LET r == asm_out.result
            room == Max(0, r.budget)
        IN  /\ r.blocks[2].len <= (room * 20) \div 100
            /\ r.blocks[4].len <= (room * 40) \div 100
            /\ r.blocks[6].len <= (room * 40) \div 100
            /\ r.blocks[2].len + r.blocks[4].len + r.blocks[6].len <= room

-----------------------------------------------------------------------------
(* Claims about the segments of the retrieved context. *)

\* len of the separator-joined segments of the first n chunks.
JoinedPrefixLen(docs, n) ==
    JoinLen([i \in 1..n |-> DocSegment(docs[i], Len(docs)).len], SEPARATOR_LEN)

\* C19: on the non-error path the context is the separator-joined whole
\* segments of a prefix of the chunks in rank order; the first chunk left
\* out is one whose segment would take the joined length above
\* MAX_RAG_CONTEXT_CHARS, and every later chunk is left out with it.
C19_WholeSegmentsOfAPrefix ==
    (ret_out.done /\ ret_out.result.path = "ok") =>
        LET docs == ret_in.search.docs
            parts == ret_out.result.parts
        IN  /\ Len(parts) <= Len(docs)
            /\ \A i \in 1..Len(parts) : parts[i] = DocSegment(docs[i], Len(docs))
            /\ ret_out.result.len = JoinedPrefixLen(docs, Len(parts))
            /\ ret_out.result.len <= MAX_RAG_CONTEXT_CHARS
            /\ Len(parts) < Len(docs) =>
                  JoinedPrefixLen(docs, Len(parts) + 1) > MAX_RAG_CONTEXT_CHARS

\* Of three chunks the first is in the context, the second does not fit,
\* and the third, which would fit after the first, is left out as well.
C19_Witness ==
    /\ ret_out.done /\ ret_out.result.path = "ok"
    /\ Len(ret_in.search.docs) = 3
    /\ Len(ret_out.result.parts) = 1
    /\ ret_out.result.parts[1].len
         + SEPARATOR_LEN + DocSegment(ret_in.search.docs[3], 3).len
       <= MAX_RAG_CONTEXT_CHARS

-----------------------------------------------------------------------------
(* Claims about load_documents. *)

\* A file of a supported kind: .pdf or .xlsx in any case, or a .json with
\* "attack" in its name.
Supported(file) ==
    \/ file.suffix \in {".pdf", ".PDF", ".xlsx", ".XLSX"}
    \/ file.suffix \in {".json", ".JSON"} /\ file.attack

\* C20: for any folder, whichever files raise during extraction,
\* load_documents does not raise and returns exactly the documents of the
\* supported files that extracted, each once, file by file in folder order;
\* files that raise and unsupported files contribute nothing.
C20_PartialFailureTolerant ==
    (ld_out.done /\ ld_in.folder.exists) =>
        LET files == ld_in.folder.files
            documents == ld_out.result.documents
        IN  /\ ~ld_out.result.raised
            /\ \A k \in 1..Len(documents) :
                  /\ documents[k].file \in 1..Len(files)
                  /\ Supported(files[documents[k].file])
                  /\ ~files[documents[k].file].raises
                  /\ documents[k].n \in 1..files[documents[k].file].docs
            /\ \A i \in 1..Len(files) :
                  (Supported(files[i]) /\ ~files[i].raises) =>
                      \A n \in 1..files[i].docs :
                          \E k \in 1..Len(documents) :
                              documents[k] = [file |-> i, n |-> n]
            /\ \A k \in 1..(Len(documents) - 1) :
                  \/ documents[k].file < documents[k + 1].file
                  \/ /\ documents[k].file = documents[k + 1].file
                     /\ documents[k].n < documents[k + 1].n

\* A folder whose first file raises during extraction and whose second
\* file gives two documents: these two are returned.
C20_Witness ==
    /\ ld_out.done /\ ld_in.folder.exists
    /\ Len(ld_in.folder.files) = 2
    /\ Supported(ld_in.folder.files[1]) /\ ld_in.folder.files[1].raises
    /\ ld_out.result.documents = <<[file |-> 2, n |-> 1], [file |-> 2, n |-> 2]>>

=============================================================================
